---- MODULE Spec2Model ----
(***************************************************************************)
(* JTAG protocol engine of dap-rs (src/src/jtag.rs).                       *)
(*                                                                         *)
(* The state is the scan-chain configuration (Config), the TAP controller  *)
(* of the attached chain, and a record of the last operation: its name,    *)
(* arguments, return value and the calls it made on the hardware           *)
(* capability (tms_sequence / sequence).  One action per operation.        *)
(***************************************************************************)
EXTENDS Integers, Sequences, FiniteSets, TLC

VARIABLES
    scan_chain,       \* Config.scan_chain: sequence of TapConfig, fixed length
    device_count,     \* Config.device_count: u8
    index,            \* Config.index: u8
    overflow_checks,  \* build profile: TRUE = arithmetic overflow panics
    status,           \* "running" | "panicked"
    tap,              \* state of the IEEE 1149.1 TAP controller on the wire
    op,               \* name of the last operation
    args,             \* its arguments, as a sequence of numbers
    ret,              \* its result: [tag, val, tap]
    calls,            \* the hardware calls it made, in order
    obs,              \* what the hardware did during it and the ack it read
    req,              \* dap::Request.data: the request bytes not yet read
    resp              \* dap::ResponseWriter.idx: the response bytes written

vars == <<scan_chain, device_count, index, overflow_checks, status, tap,
          op, args, ret, calls, obs, req, resp>>

config == <<scan_chain, device_count, index>>

----------------------------------------------------------------------------
(* Bounds of the model *)

\* Largest chain buffer handed to Config::new.
MaxCap == 4

----------------------------------------------------------------------------
(* Fixed-width arithmetic *)

\* Counts (u8, u16) are numbers; a subtraction that leaves the type's range
\* wraps modulo these when overflow checks are off.
U8 == 256
U16 == 65536

\* Width of the data words (u32) and of the capture bytes (u8).
WordBits == 32
ByteBits == 8

Min(a, b) == IF a < b THEN a ELSE b

\* A u32 or u8 value is the set of the positions of its 1 bits (bit 0 is the
\* least significant), so that |, &, << and >> are exact at 32 bits.
RECURSIVE Bits(_)
Bits(n) ==
    IF n = 0 THEN {}
    ELSE (IF n % 2 = 1 THEN {0} ELSE {}) \cup { b + 1 : b \in Bits(n \div 2) }

\* The u32 with the given 16-bit halves.
Word(hi, lo) == Bits(lo) \cup { b + 16 : b \in Bits(hi) }

\* x >> k
Shr(x, k) == { b - k : b \in { c \in x : c >= k } }

\* x << k on a u32: bits shifted past bit 31 are lost
Shl32(x, k) == { b + k : b \in { c \in x : c + k < WordBits } }

\* x as u8
AsU8(x) == { b \in x : b < ByteBits }

\* x | y
BitOr(x, y) == x \cup y

----------------------------------------------------------------------------
(* Results *)

\* TapConfig::INIT
INIT == [ir_length |-> 0, ir_before |-> 0, ir_after |-> 0]

\* tag says which fields mean something: val for a word, tap for a TapConfig.
Ret(tag, val, t) == [tag |-> tag, val |-> val, tap |-> t]
RetNone  == Ret("none", {}, INIT)
RetUnit  == Ret("unit", {}, INIT)
RetPanic == Ret("panic", {}, INIT)
RetBool(b) == Ret(IF b THEN "true" ELSE "false", {}, INIT)
RetTap(t) == Ret("tap", {}, t)

----------------------------------------------------------------------------
(* TapConfig and Config *)

TapConfig(len, before, after) ==
    [ir_length |-> len, ir_before |-> before, ir_after |-> after]

\* The TAPs of the chain buffers handed to Config::new, by position: a TAP
\* with a 9-bit IR and 12 IR bits after it, a TAP with a 4-bit IR and nothing
\* around it, a TAP with a 1-bit IR and 13 IR bits before it; every further
\* slot still holds TapConfig::INIT.
TapAt(i) ==
    CASE i = 1 -> TapConfig(9, 0, 12)
      [] i = 2 -> TapConfig(4, 0, 0)
      [] i = 3 -> TapConfig(1, 13, 0)
      [] OTHER -> INIT

ChainBuffer(cap) == [i \in 1..cap |-> TapAt(i)]

ChainBuffers == { ChainBuffer(cap) : cap \in 0..MaxCap }

\* Arguments tried for the u8 parameters of the two setters.
Counts == 0..(MaxCap + 1) \cup {255}

\* Config::new
ConfigNew(chain_buffer) ==
    [device_count |-> 0, index |-> 0, scan_chain |-> chain_buffer]

\* Config::current_tap: the slice lookup panics when index is out of bounds.
current_tap ==
    IF index + 1 \in DOMAIN scan_chain
    THEN [panic |-> FALSE, tap |-> scan_chain[index + 1]]
    ELSE [panic |-> TRUE, tap |-> INIT]

\* Mutant: the bound check off by one (count == capacity accepted).
update_device_count_Inclusive(count) ==
    IF count > Len(scan_chain)
    THEN [ret |-> FALSE, device_count |-> device_count]
    ELSE [ret |-> TRUE, device_count |-> count]

\* Mutant: the count is stored before it is checked.
update_device_count_Early(count) ==
    IF count >= Len(scan_chain)
    THEN [ret |-> FALSE, device_count |-> count]
    ELSE [ret |-> TRUE, device_count |-> count]

\* Config::update_device_count
update_device_count(count) ==
    IF count >= Len(scan_chain)
    THEN [ret |-> FALSE, device_count |-> device_count]
    ELSE [ret |-> TRUE, device_count |-> count]

\* Mutant: the bound check off by one (i == device_count accepted).
select_index_Inclusive(i) ==
    IF i > device_count
    THEN [ret |-> FALSE, index |-> index]
    ELSE [ret |-> TRUE, index |-> i]

\* Config::select_index
select_index(i) ==
    IF i >= device_count
    THEN [ret |-> FALSE, index |-> index]
    ELSE IF i # index
         THEN [ret |-> TRUE, index |-> i]
         ELSE [ret |-> TRUE, index |-> index]

----------------------------------------------------------------------------
(* The IEEE 1149.1 TAP controller, stepped by TMS on every clock *)

Idle == "Run-Test/Idle"

TapStep(s, tms) ==
    CASE s = "Test-Logic-Reset" -> IF tms THEN "Test-Logic-Reset" ELSE Idle
      [] s = Idle               -> IF tms THEN "Select-DR-Scan" ELSE Idle
      [] s = "Select-DR-Scan"   -> IF tms THEN "Select-IR-Scan" ELSE "Capture-DR"
      [] s = "Capture-DR"       -> IF tms THEN "Exit1-DR" ELSE "Shift-DR"
      [] s = "Shift-DR"         -> IF tms THEN "Exit1-DR" ELSE "Shift-DR"
      [] s = "Exit1-DR"         -> IF tms THEN "Update-DR" ELSE "Pause-DR"
      [] s = "Pause-DR"         -> IF tms THEN "Exit2-DR" ELSE "Pause-DR"
      [] s = "Exit2-DR"         -> IF tms THEN "Update-DR" ELSE "Shift-DR"
      [] s = "Update-DR"        -> IF tms THEN "Select-DR-Scan" ELSE Idle
      [] s = "Select-IR-Scan"   -> IF tms THEN "Test-Logic-Reset" ELSE "Capture-IR"
      [] s = "Capture-IR"       -> IF tms THEN "Exit1-IR" ELSE "Shift-IR"
      [] s = "Shift-IR"         -> IF tms THEN "Exit1-IR" ELSE "Shift-IR"
      [] s = "Exit1-IR"         -> IF tms THEN "Update-IR" ELSE "Pause-IR"
      [] s = "Pause-IR"         -> IF tms THEN "Exit2-IR" ELSE "Pause-IR"
      [] s = "Exit2-IR"         -> IF tms THEN "Update-IR" ELSE "Shift-IR"
      [] s = "Update-IR"        -> IF tms THEN "Select-DR-Scan" ELSE Idle

\* n clocks with TMS held: once a clock leaves the state where it is, so do
\* all the clocks after it.
RECURSIVE TapClocks(_, _, _)
TapClocks(s, tms, n) ==
    IF n = 0 \/ TapStep(s, tms) = s THEN s
    ELSE TapClocks(TapStep(s, tms), tms, n - 1)

\* one clock per element of a tms_sequence
RECURSIVE TapBits(_, _)
TapBits(s, bits) ==
    IF bits = <<>> THEN s ELSE TapBits(TapStep(s, Head(bits)), Tail(bits))

----------------------------------------------------------------------------
(* Calls on the hardware capability *)

\* Jtag::tms_sequence(tms)
TmsCall(bits) ==
    [kind |-> "tms_sequence", bits |-> bits,
     n_bits |-> 0, capture |-> FALSE, tms |-> FALSE, tdi |-> <<>>, rep |-> 1]

\* Jtag::sequence(SequenceInfo {n_bits, capture, tms}, tdi, rxbuf), made rep
\* times in a row with the same arguments.
SeqCall(n_bits, capture, tms, tdi, rep) ==
    [kind |-> "sequence", bits |-> <<>>,
     n_bits |-> n_bits, capture |-> capture, tms |-> tms, tdi |-> tdi, rep |-> rep]

TapAfterCall(s, c) ==
    IF c.kind = "tms_sequence" THEN TapBits(s, c.bits)
    ELSE TapClocks(s, c.tms, c.n_bits * c.rep)

RECURSIVE TapAfter(_, _)
TapAfter(s, cs) ==
    IF cs = <<>> THEN s ELSE TapAfter(TapAfterCall(s, Head(cs)), Tail(cs))

\* What the hardware writes into the capture byte of the k-th burst of a
\* shift, a burst of n bits with TDI byte tdi.  "loopback": TDO echoes TDI,
\* the bits not clocked are 0; "loopback_dirty": the same, but the bits not
\* clocked are 1; "high": TDO stuck at 1, all 8 bits set; "bytes": the k-th
\* burst captures the k-th of the given bytes.
Hw(mode) == [mode |-> mode, bytes |-> <<>>]
HwBytes(bytes) == [mode |-> "bytes", bytes |-> bytes]

HwCapture(hw, k, tdi, n) ==
    CASE hw.mode = "loopback"       -> { b \in tdi : b < n }
      [] hw.mode = "loopback_dirty" -> { b \in tdi : b < n } \cup { b \in 0..(ByteBits - 1) : b >= n }
      [] hw.mode = "high"           -> 0..(ByteBits - 1)
      [] hw.mode = "bytes"          -> hw.bytes[k]

----------------------------------------------------------------------------
(* TAP navigation *)

IDLE_TO_SHIFT_DR == <<TRUE, FALSE, FALSE>>
IDLE_TO_SHIFT_IR == <<TRUE, TRUE, FALSE, FALSE>>
\* Mutant: the Exit1 -> Idle pattern used to leave the shift state.
SHIFT_TO_IDLE_AsExit1 == <<TRUE, FALSE>>
\* Mutant: a way from the shift state to Idle through Pause and Exit2.
SHIFT_TO_IDLE_ViaPause == <<TRUE, FALSE, TRUE, TRUE, FALSE>>
SHIFT_TO_IDLE == <<TRUE, TRUE, FALSE>>
EXIT1_TO_IDLE == <<TRUE, FALSE>>

\* Mutant: the SWD OK ack (0b001) instead of the JTAG OK/FAULT ack.
DAP_TRANSFER_OK_FAULT_Swd == Bits(1)
DAP_TRANSFER_OK_FAULT == Bits(2)

----------------------------------------------------------------------------
(* Bit-shift primitives.  Each returns the calls it made, whether it      *)
(* panicked, and (shift_register_data) the captured word.                 *)

\* shift_tdi: one capturing burst of one TDI byte
shift_tdi(tdi, clocks, tms) == SeqCall(clocks, TRUE, tms, <<tdi>>, 1)

\* Mutant: the clocks are sent as one burst, however many they are.
shift_repeated_tdi_OneBurst(tdi, clocks, tms) ==
    IF clocks > 0 THEN << shift_tdi(tdi, clocks, tms) >> ELSE <<>>

\* shift_repeated_tdi: bursts of min(clocks, 8) bits until none are left,
\* that is clocks / 8 bursts of 8 bits and then one of the rest.
shift_repeated_tdi(tdi, clocks, tms) ==
    (IF clocks \div 8 > 0
     THEN << [shift_tdi(tdi, 8, tms) EXCEPT !.rep = clocks \div 8] >> ELSE <<>>)
    \o (IF clocks % 8 > 0 THEN << shift_tdi(tdi, clocks % 8, tms) >> ELSE <<>>)

\* x << k on a u32 as the build computes it: with overflow checks a shift
\* by 32 or more panics, without them the amount is taken modulo 32.
ShlPanics(k) == overflow_checks /\ k >= WordBits
Shl(x, k) == Shl32(x, k % WordBits)

\* The loop of shift_register_data: all bits except the last, TMS = 0.
\* k counts the bursts made so far.
RECURSIVE ShiftLoop(_, _, _, _, _, _, _)
ShiftLoop(data, captured_dr, clocks, clock_cycles, hw, k, cs) ==
    IF clocks > 1
    THEN LET bits == Min(clocks - 1, 8)
             call == shift_tdi(AsU8(data), bits, FALSE)
             captured_byte == HwCapture(hw, k + 1, AsU8(data), bits)
         IN IF ShlPanics(clock_cycles - bits)
            THEN [panic |-> TRUE, captured |-> {}, calls |-> Append(cs, call),
                  data |-> data, k |-> k + 1]
            ELSE ShiftLoop(Shr(data, bits),
                           BitOr(Shr(captured_dr, bits),
                                 Shl(captured_byte, clock_cycles - bits)),
                           clocks - bits, clock_cycles, hw, k + 1, Append(cs, call))
    ELSE [panic |-> FALSE, captured |-> captured_dr, calls |-> cs,
          data |-> data, k |-> k]

\* Mutant: the accumulator is not shifted before the last bit is merged.
shift_register_data_NoFinalShift(data, clock_cycles, exit_shift, hw) ==
    LET loop == ShiftLoop(data, {}, clock_cycles, clock_cycles, hw, 0, <<>>)
        call == shift_tdi(AsU8(loop.data), 1, exit_shift)
        captured_byte == HwCapture(hw, loop.k + 1, AsU8(loop.data), 1)
        amount == (clock_cycles - 1) % U8
    IN IF loop.panic THEN [panic |-> TRUE, captured |-> {}, calls |-> loop.calls]
       ELSE IF (overflow_checks /\ clock_cycles < 1) \/ ShlPanics(amount)
       THEN [panic |-> TRUE, captured |-> {}, calls |-> Append(loop.calls, call)]
       ELSE [panic |-> FALSE,
             captured |-> BitOr(loop.captured, Shl(captured_byte, amount)),
             calls |-> Append(loop.calls, call)]

\* shift_register_data(jtag, data, clock_cycles, exit_shift)
shift_register_data(data, clock_cycles, exit_shift, hw) ==
    LET loop == ShiftLoop(data, {}, clock_cycles, clock_cycles, hw, 0, <<>>)
        call == shift_tdi(AsU8(loop.data), 1, exit_shift)
        captured_byte == HwCapture(hw, loop.k + 1, AsU8(loop.data), 1)
        \* clock_cycles - 1 on a u8
        amount == (clock_cycles - 1) % U8
    IN IF loop.panic THEN [panic |-> TRUE, captured |-> {}, calls |-> loop.calls]
       ELSE IF (overflow_checks /\ clock_cycles < 1) \/ ShlPanics(amount)
       THEN [panic |-> TRUE, captured |-> {}, calls |-> Append(loop.calls, call)]
       ELSE [panic |-> FALSE,
             captured |-> BitOr(Shr(loop.captured, 1), Shl(captured_byte, amount)),
             calls |-> Append(loop.calls, call)]

\* bypass_after_data
\* Mutant: bypass_after filler bits with TMS = 0 before the exiting one.
bypass_after_data_OneMore(bypass_after) ==
    IF bypass_after > 0
    THEN shift_repeated_tdi(Bits(255), bypass_after, FALSE)
         \o shift_repeated_tdi(Bits(255), 1, TRUE)
    ELSE <<>>

bypass_after_data(bypass_after) ==
    IF bypass_after > 0
    THEN (IF bypass_after > 1
          THEN shift_repeated_tdi(Bits(255), bypass_after - 1, FALSE)
          ELSE <<>>)
         \o shift_repeated_tdi(Bits(255), 1, TRUE)
    ELSE <<>>

----------------------------------------------------------------------------
(* Composed operations.  Each returns the calls it made, its result, and  *)
(* whether it panicked on the way (the calls made before the panic are on *)
(* the wire).                                                             *)

\* RnW as u32 (crate::swd::RnW)
RnW_W == 0
RnW_R == 1

\* ack: the word transfer read back while shifting the request ({} when the
\* operation reads none).
Done(cs, r, ack) == [panic |-> FALSE, calls |-> cs, ret |-> r, ack |-> ack]
Panic(cs) == [panic |-> TRUE, calls |-> cs, ret |-> RetPanic, ack |-> {}]

\* TransferResult::status
TransferResult_status(tag) ==
    CASE tag = "Ok" -> 1
      [] tag = "Wait" -> 2
      [] tag = "Fault" -> 8
      [] tag = "Mismatch" -> 16

\* device_count as u16 - bypass_bits_before - 1, on a u16
BypassAfterOverflows == device_count - index - 1 < 0
BypassAfter == (device_count - index - 1) % U16

\* Mutant: the bypass bits before the instruction are not sent.
shift_ir_NoBefore(ir, hw) ==
    LET c0 == << TmsCall(IDLE_TO_SHIFT_IR) >>
        t == current_tap
        ir_length == t.tap.ir_length
        bypass_bits_after == t.tap.ir_after
        sh == shift_register_data(ir, ir_length, bypass_bits_after = 0, hw)
        c2 == c0 \o sh.calls
        c3 == c2 \o bypass_after_data(bypass_bits_after)
    IN IF t.panic THEN Panic(c0)
       ELSE IF sh.panic THEN Panic(c2)
       ELSE Done(c3 \o << TmsCall(EXIT1_TO_IDLE) >>, RetUnit, {})

\* Jtag::shift_ir(ir)
shift_ir(ir, hw) ==
    LET c0 == << TmsCall(IDLE_TO_SHIFT_IR) >>
        t == current_tap
        ir_length == t.tap.ir_length
        bypass_bits_before == t.tap.ir_before
        bypass_bits_after == t.tap.ir_after
        c1 == c0 \o shift_repeated_tdi(Bits(255), bypass_bits_before, FALSE)
        sh == shift_register_data(ir, ir_length, bypass_bits_after = 0, hw)
        c2 == c1 \o sh.calls
        c3 == c2 \o bypass_after_data(bypass_bits_after)
    IN IF t.panic THEN Panic(c0)
       ELSE IF sh.panic THEN Panic(c2)
       ELSE Done(c3 \o << TmsCall(EXIT1_TO_IDLE) >>, RetUnit, {})

\* Mutant: the bypass-before bits are counted into the returned word.
shift_dr_WithFiller(dr, hw) ==
    LET c0 == << TmsCall(IDLE_TO_SHIFT_DR) >>
        bypass_bits_before == index
        bypass_bits_after == BypassAfter
        c1 == c0 \o shift_repeated_tdi(Bits(255), bypass_bits_before, FALSE)
        sh == shift_register_data(dr, 32, bypass_bits_after = 0, hw)
        c2 == c1 \o sh.calls
        c3 == c2 \o bypass_after_data(bypass_bits_after)
        word == BitOr(Shl32(sh.captured, index), { b \in 0..31 : b < index })
    IN IF overflow_checks /\ BypassAfterOverflows THEN Panic(c0)
       ELSE IF sh.panic THEN Panic(c2)
       ELSE Done(c3 \o << TmsCall(EXIT1_TO_IDLE) >>, Ret("word", word, INIT), {})

\* Jtag::shift_dr(dr)
shift_dr(dr, hw) ==
    LET c0 == << TmsCall(IDLE_TO_SHIFT_DR) >>
        bypass_bits_before == index
        bypass_bits_after == BypassAfter
        c1 == c0 \o shift_repeated_tdi(Bits(255), bypass_bits_before, FALSE)
        sh == shift_register_data(dr, 32, bypass_bits_after = 0, hw)
        c2 == c1 \o sh.calls
        c3 == c2 \o bypass_after_data(bypass_bits_after)
    IN IF overflow_checks /\ BypassAfterOverflows THEN Panic(c0)
       ELSE IF sh.panic THEN Panic(c2)
       ELSE Done(c3 \o << TmsCall(EXIT1_TO_IDLE) >>, Ret("word", sh.captured, INIT), {})

\* Mutant: no idle cycles after a Wait.
transfer_NoIdleOnWait(r_nw, a2a3, idle_cycles, data, check_ack, hw_ack, hw_data) ==
    LET c0 == << TmsCall(IDLE_TO_SHIFT_DR) >>
        bypass_bits_before == index
        bypass_bits_after == BypassAfter
        c1 == c0 \o shift_repeated_tdi(Bits(255), bypass_bits_before, FALSE)
        \* (a2a3 << 1) as u32 | (r_nw as u32)
        request == BitOr(AsU8(Shl32(Bits(a2a3), 1)), Bits(r_nw))
        rq == shift_register_data(request, 3, FALSE, hw_ack)
        ack == rq.captured
        c2 == c1 \o rq.calls
        sh == shift_register_data(data, 32, bypass_bits_after = 0, hw_data)
        c3 == c2 \o sh.calls
        c4 == c3 \o bypass_after_data(bypass_bits_after) \o << TmsCall(EXIT1_TO_IDLE) >>
        c5 == c2 \o << TmsCall(SHIFT_TO_IDLE) >>
        idle == shift_repeated_tdi(Bits(255), idle_cycles, FALSE)
    IN IF overflow_checks /\ BypassAfterOverflows THEN Panic(c0)
       ELSE IF rq.panic THEN Panic(c2)
       ELSE IF ack = DAP_TRANSFER_OK_FAULT \/ ~check_ack
       THEN IF sh.panic THEN Panic(c3)
            ELSE Done(c4 \o idle, Ret("Ok", sh.captured, INIT), ack)
       ELSE Done(c5, Ret("Wait", {}, INIT), ack)

\* Mutant: the ack 0b100 is reported as a fault.
transfer_FaultOnAck(r_nw, a2a3, idle_cycles, data, check_ack, hw_ack, hw_data) ==
    LET c0 == << TmsCall(IDLE_TO_SHIFT_DR) >>
        bypass_bits_before == index
        bypass_bits_after == BypassAfter
        c1 == c0 \o shift_repeated_tdi(Bits(255), bypass_bits_before, FALSE)
        \* (a2a3 << 1) as u32 | (r_nw as u32)
        request == BitOr(AsU8(Shl32(Bits(a2a3), 1)), Bits(r_nw))
        rq == shift_register_data(request, 3, FALSE, hw_ack)
        ack == rq.captured
        c2 == c1 \o rq.calls
        sh == shift_register_data(data, 32, bypass_bits_after = 0, hw_data)
        c3 == c2 \o sh.calls
        c4 == c3 \o bypass_after_data(bypass_bits_after) \o << TmsCall(EXIT1_TO_IDLE) >>
        c5 == c2 \o << TmsCall(SHIFT_TO_IDLE) >>
        idle == shift_repeated_tdi(Bits(255), idle_cycles, FALSE)
    IN IF overflow_checks /\ BypassAfterOverflows THEN Panic(c0)
       ELSE IF rq.panic THEN Panic(c2)
       ELSE IF ack = DAP_TRANSFER_OK_FAULT \/ ~check_ack
       THEN IF sh.panic THEN Panic(c3)
            ELSE Done(c4 \o idle, Ret("Ok", sh.captured, INIT), ack)
       ELSE Done(c5 \o idle, Ret(IF ack = Bits(4) THEN "Fault" ELSE "Wait", {}, INIT), ack)

\* transfer(jtag, r_nw, a2a3, idle_cycles, data, check_ack).  hw_ack is the
\* hardware during the three request bits, hw_data during the data bits.
transfer(r_nw, a2a3, idle_cycles, data, check_ack, hw_ack, hw_data) ==
    LET c0 == << TmsCall(IDLE_TO_SHIFT_DR) >>
        bypass_bits_before == index
        bypass_bits_after == BypassAfter
        c1 == c0 \o shift_repeated_tdi(Bits(255), bypass_bits_before, FALSE)
        \* (a2a3 << 1) as u32 | (r_nw as u32)
        request == BitOr(AsU8(Shl32(Bits(a2a3), 1)), Bits(r_nw))
        rq == shift_register_data(request, 3, FALSE, hw_ack)
        ack == rq.captured
        c2 == c1 \o rq.calls
        sh == shift_register_data(data, 32, bypass_bits_after = 0, hw_data)
        c3 == c2 \o sh.calls
        c4 == c3 \o bypass_after_data(bypass_bits_after) \o << TmsCall(EXIT1_TO_IDLE) >>
        c5 == c2 \o << TmsCall(SHIFT_TO_IDLE) >>
        idle == shift_repeated_tdi(Bits(255), idle_cycles, FALSE)
    IN IF overflow_checks /\ BypassAfterOverflows THEN Panic(c0)
       ELSE IF rq.panic THEN Panic(c2)
       ELSE IF ack = DAP_TRANSFER_OK_FAULT \/ ~check_ack
       THEN IF sh.panic THEN Panic(c3)
            ELSE Done(c4 \o idle, Ret("Ok", sh.captured, INIT), ack)
       ELSE Done(c5 \o idle, Ret("Wait", {}, INIT), ack)

\* Mutant: the ack is checked, as in Jtag::transfer.
write_abort_Checked(data, hw_ack, hw_data) ==
    LET r == transfer(RnW_W, 0, 8, data, TRUE, hw_ack, hw_data)
    IN IF r.panic THEN r ELSE Done(r.calls, RetUnit, r.ack)

\* Jtag::write_abort(data): the TransferResult is dropped
write_abort(data, hw_ack, hw_data) ==
    LET r == transfer(RnW_W, 0, 8, data, FALSE, hw_ack, hw_data)
    IN IF r.panic THEN r ELSE Done(r.calls, RetUnit, r.ack)

\* Jtag::transfer(r_nw, a2a3, transfer_config, data)
jtag_transfer(r_nw, a2a3, idle_cycles, data, hw_ack, hw_data) ==
    transfer(r_nw, a2a3, idle_cycles, data, TRUE, hw_ack, hw_data)

----------------------------------------------------------------------------
(* Inputs *)

\* Data words for shift_dr: 0xDEADBEEF and 0x00000001
Words == { Word(57005, 48879), Bits(1) }

\* Data words for transfer and write_abort: 0xDEADBEEF
TransferWords == { Word(57005, 48879) }

\* Instructions: JTAG_IR_DPACC and an instruction wider than a burst
Instructions == { Bits(10), Bits(341) }

\* Arguments of transfer: (r_nw, a2a3, idle_cycles)
TransferArgs == { <<RnW_W, 0, 0>>, <<RnW_R, 3, 3>> }

\* Hardware while data is shifted
DataHw == { Hw("loopback"), Hw("high") }

\* Hardware while the request is shifted: the capture bytes of its two
\* bursts (2 bits, then 1 bit).  130 = 0x82 has a bit set that was not
\* clocked.
AckHw ==
    { HwBytes(<<Bits(b1), Bits(b2)>>) : b1 \in {0, 1, 2, 3}, b2 \in {0, 1} }
    \cup { HwBytes(<<Bits(130), Bits(0)>>) }

----------------------------------------------------------------------------
(* The state machine *)

\* No hardware involved.
NoHw == Hw("none")
NoObs == [hw_ack |-> NoHw, hw_data |-> NoHw, ack |-> {}]

Init ==
    /\ \E buf \in ChainBuffers :
         LET c == ConfigNew(buf) IN
           /\ scan_chain = c.scan_chain
           /\ device_count = c.device_count
           /\ index = c.index
    /\ overflow_checks \in BOOLEAN
    /\ status = "running"
    /\ tap = Idle
    /\ op = "new"
    /\ args = <<>>
    /\ ret = RetNone
    /\ calls = <<>>
    /\ obs = NoObs
    /\ req = <<>>
    /\ resp = 0

UpdateDeviceCount ==
    /\ status = "running"
    /\ \E count \in Counts :
         LET r == update_device_count(count) IN
           /\ device_count' = r.device_count
           /\ op' = "update_device_count"
           /\ args' = <<count>>
           /\ ret' = RetBool(r.ret)
    /\ calls' = <<>>
    /\ obs' = NoObs
    /\ UNCHANGED <<scan_chain, index, overflow_checks, status, tap, req, resp>>

SelectIndex ==
    /\ status = "running"
    /\ \E i \in Counts :
         LET r == select_index(i) IN
           /\ index' = r.index
           /\ op' = "select_index"
           /\ args' = <<i>>
           /\ ret' = RetBool(r.ret)
    /\ calls' = <<>>
    /\ obs' = NoObs
    /\ UNCHANGED <<scan_chain, device_count, overflow_checks, status, tap, req, resp>>

CurrentTap ==
    /\ status = "running"
    /\ LET r == current_tap IN
         /\ op' = "current_tap"
         /\ args' = <<>>
         /\ ret' = IF r.panic THEN RetPanic ELSE RetTap(r.tap)
         /\ status' = IF r.panic THEN "panicked" ELSE status
    /\ calls' = <<>>
    /\ obs' = NoObs
    /\ UNCHANGED <<scan_chain, device_count, index, overflow_checks, tap, req, resp>>

\* The effect of a composed operation on the wire and on the record of the
\* last operation; the configuration is only read.
Perform(name, a, r, hw_ack, hw_data) ==
    /\ op' = name
    /\ obs' = [hw_ack |-> hw_ack, hw_data |-> hw_data, ack |-> r.ack]
    /\ args' = a
    /\ ret' = r.ret
    /\ calls' = r.calls
    /\ tap' = TapAfter(tap, r.calls)
    /\ status' = IF r.panic THEN "panicked" ELSE status
    /\ UNCHANGED <<scan_chain, device_count, index, overflow_checks, req, resp>>

ShiftIr ==
    /\ status = "running"
    /\ \E ir \in Instructions, hw \in DataHw :
         Perform("shift_ir", <<ir>>, shift_ir(ir, hw), NoHw, hw)

ShiftDr ==
    /\ status = "running"
    /\ \E dr \in Words, hw \in DataHw :
         Perform("shift_dr", <<dr>>, shift_dr(dr, hw), NoHw, hw)

Transfer ==
    /\ status = "running"
    /\ \E a \in TransferArgs, data \in TransferWords,
          hw_ack \in AckHw, hw_data \in DataHw :
         Perform("transfer", <<a[1], a[2], a[3], data>>,
                 jtag_transfer(a[1], a[2], a[3], data, hw_ack, hw_data),
                 hw_ack, hw_data)

WriteAbort ==
    /\ status = "running"
    /\ \E data \in TransferWords, hw_ack \in AckHw, hw_data \in DataHw :
         Perform("write_abort", <<data>>, write_abort(data, hw_ack, hw_data),
                 hw_ack, hw_data)

Next ==
    \/ UpdateDeviceCount
    \/ SelectIndex
    \/ CurrentTap
    \/ ShiftIr
    \/ ShiftDr
    \/ Transfer
    \/ WriteAbort

Spec == Init /\ [][Next]_vars

----------------------------------------------------------------------------
(* shift_register_data on its own: Init draws the arguments and the        *)
(* hardware, the one action applies the function in the Shift-DR state.    *)

\* 0xDEADBEEF, 0xFFFFFFFF, 0x00000001, 0x80000000, 0xA5A55A5A
ShiftWords ==
    { Word(57005, 48879), Word(65535, 65535), Bits(1), {31}, Word(42405, 23130) }

\* clock_cycles: 0 and 33 are outside what the callers pass (3, 32, ir_length)
ShiftClockCycles == 0..33

ShiftHw == { Hw("loopback"), Hw("loopback_dirty"), Hw("high") }

InitShift ==
    /\ scan_chain = <<>>
    /\ device_count = 0
    /\ index = 0
    /\ overflow_checks \in BOOLEAN
    /\ status = "running"
    /\ tap = "Shift-DR"
    /\ op = "input"
    /\ \E data \in ShiftWords, clock_cycles \in ShiftClockCycles, exit_shift \in BOOLEAN :
         args = <<data, clock_cycles, exit_shift>>
    /\ ret = RetNone
    /\ calls = <<>>
    /\ \E hw \in ShiftHw : obs = [hw_ack |-> NoHw, hw_data |-> hw, ack |-> {}]
    /\ req = <<>>
    /\ resp = 0

ShiftRegisterData ==
    /\ status = "running"
    /\ op = "input"
    /\ LET r == shift_register_data(args[1], args[2], args[3], obs.hw_data) IN
         /\ op' = "shift_register_data"
         /\ ret' = IF r.panic THEN RetPanic ELSE Ret("word", r.captured, INIT)
         /\ calls' = r.calls
         /\ tap' = TapAfter(tap, r.calls)
         /\ status' = IF r.panic THEN "panicked" ELSE status
    /\ UNCHANGED <<scan_chain, device_count, index, overflow_checks, args, obs, req, resp>>

NextShift == ShiftRegisterData

SpecShift == InitShift /\ [][NextShift]_vars

----------------------------------------------------------------------------
(* SequenceInfo::from on its own: the byte is drawn from all of u8. *)

BitAnd(x, y) == x \cap y

\* the u8 whose 1 bits are x
U8Value(x) == CHOOSE n \in 0..(U8 - 1) : Bits(n) = x

JTAG_SEQUENCE_TCK == Bits(63)
JTAG_SEQUENCE_TMS == Bits(64)
JTAG_SEQUENCE_TDO == Bits(128)

\* Mutant: a bit count of 0 is taken as it is.
SequenceInfoFrom_ZeroIsZero(byte) ==
    [n_bits  |-> U8Value(BitAnd(Bits(byte), JTAG_SEQUENCE_TCK)),
     capture |-> BitAnd(Bits(byte), JTAG_SEQUENCE_TDO) # {},
     tms     |-> BitAnd(Bits(byte), JTAG_SEQUENCE_TMS) # {}]

\* impl From<u8> for SequenceInfo
SequenceInfoFrom(byte) ==
    LET n == BitAnd(Bits(byte), JTAG_SEQUENCE_TCK)
        \* CMSIS-DAP says 0 means 64 bits
        n_bits == IF n = {} THEN 64 ELSE U8Value(n)
    IN [n_bits  |-> n_bits % U8,
        capture |-> BitAnd(Bits(byte), JTAG_SEQUENCE_TDO) # {},
        tms     |-> BitAnd(Bits(byte), JTAG_SEQUENCE_TMS) # {}]

InitInfo ==
    /\ scan_chain = <<>>
    /\ device_count = 0
    /\ index = 0
    /\ overflow_checks \in BOOLEAN
    /\ status = "running"
    /\ tap = Idle
    /\ op = "input"
    /\ \E byte \in 0..(U8 - 1) : args = <<byte>>
    /\ ret = RetNone
    /\ calls = <<>>
    /\ obs = NoObs
    /\ req = <<>>
    /\ resp = 0

SequenceInfoFromByte ==
    /\ op = "input"
    /\ op' = "SequenceInfo::from"
    /\ ret' = Ret("info", SequenceInfoFrom(args[1]), INIT)
    /\ UNCHANGED <<scan_chain, device_count, index, overflow_checks, status, tap,
                   args, calls, obs, req, resp>>

NextInfo == SequenceInfoFromByte

SpecInfo == InitInfo /\ [][NextInfo]_vars

----------------------------------------------------------------------------
(* Jtag::sequences on its own: the request is a well-formed stream of up   *)
(* to MaxSeqCount sequences, possibly followed by another byte.            *)

MaxSeqCount == 2

\* dap::Request::next_u8: the first byte, and the data after it
next_u8(data) == [v |-> Head(data), data |-> Tail(data)]
\* dap::Request::consume(n)
consume(data, n) == SubSeq(data, n + 1, Len(data))
\* dap::ResponseWriter::skip(n)
skip(idx, n) == idx + n

\* Mutant: the response cursor moves for every sequence.
SequenceStep_AlwaysSkip(data, idx) ==
    LET b == next_u8(data)
        sequence_info == SequenceInfoFrom(b.v)
        n_bytes == (sequence_info.n_bits + 7) \div 8
        tdi == [i \in 1..n_bytes |-> Bits(b.data[i])]
    IN [call |-> SeqCall(sequence_info.n_bits, sequence_info.capture,
                         sequence_info.tms, tdi, 1),
        req  |-> consume(b.data, n_bytes),
        resp |-> skip(idx, n_bytes)]

\* One turn of the loop of Jtag::sequences: the call made on the hardware
\* with the bytes req.data[..n_bytes], and the two cursors after it.
SequenceStep(data, idx) ==
    LET b == next_u8(data)
        sequence_info == SequenceInfoFrom(b.v)
        \* sequence_info.n_bits.div_ceil(8)
        n_bytes == (sequence_info.n_bits + 7) \div 8
        tdi == [i \in 1..n_bytes |-> Bits(b.data[i])]
    IN [call |-> SeqCall(sequence_info.n_bits, sequence_info.capture,
                         sequence_info.tms, tdi, 1),
        req  |-> consume(b.data, n_bytes),
        resp |-> IF sequence_info.capture THEN skip(idx, n_bytes) ELSE idx]

RECURSIVE SequencesLoop(_, _, _, _)
SequencesLoop(data, idx, left, cs) ==
    IF left = 0 THEN [req |-> data, resp |-> idx, calls |-> cs]
    ELSE LET st == SequenceStep(data, idx)
         IN SequencesLoop(st.req, st.resp, left - 1, Append(cs, st.call))

\* Jtag::sequences(req, resp)
sequences(data, idx) ==
    LET sequence_count == next_u8(data)
    IN SequencesLoop(sequence_count.data, idx, sequence_count.v, <<>>)

\* The sequences of the requests tried: 8 bits captured, 4 bits, 64 bits
\* (sent as 0), 9 bits with TMS captured, 17 bits captured.
SeqInfos ==
    { [n_bits |-> 8,  capture |-> TRUE,  tms |-> FALSE],
      [n_bits |-> 4,  capture |-> FALSE, tms |-> FALSE],
      [n_bits |-> 64, capture |-> FALSE, tms |-> FALSE],
      [n_bits |-> 9,  capture |-> TRUE,  tms |-> TRUE],
      [n_bits |-> 17, capture |-> TRUE,  tms |-> FALSE] }

SeqLists == UNION { [1..n -> SeqInfos] : n \in 0..MaxSeqCount }

CeilDiv8(n) == IF n % 8 = 0 THEN n \div 8 ELSE n \div 8 + 1

\* The descriptor byte of a sequence on the wire.
DescriptorByte(info) ==
    (info.n_bits % 64) + (IF info.tms THEN 64 ELSE 0) + (IF info.capture THEN 128 ELSE 0)

\* The TDI byte put at position pos of a request: a different one at each.
DataByte(pos) == (37 * pos + 11) % U8

RECURSIVE Encode(_, _)
Encode(infos, acc) ==
    IF infos = <<>> THEN acc
    ELSE LET a1 == Append(acc, DescriptorByte(Head(infos)))
             n == CeilDiv8(Head(infos).n_bits)
         IN Encode(Tail(infos), a1 \o [i \in 1..n |-> DataByte(Len(a1) + i)])

\* [count] { [descriptor] [TDI bytes] } x count, then the bytes of rest
RequestOf(infos, rest) == Encode(infos, << Len(infos) >>) \o rest

InitSeq ==
    /\ scan_chain = <<>>
    /\ device_count = 0
    /\ index = 0
    /\ overflow_checks \in BOOLEAN
    /\ status = "running"
    /\ tap = Idle
    /\ op = "input"
    /\ \E infos \in SeqLists, rest \in { <<>>, << 136 >> }, idx \in {0, 2} :
         /\ args = <<infos, RequestOf(infos, rest), idx>>
         /\ req = RequestOf(infos, rest)
         /\ resp = idx
    /\ ret = RetNone
    /\ calls = <<>>
    /\ obs = NoObs

Sequences ==
    /\ op = "input"
    /\ LET r == sequences(req, resp) IN
         /\ op' = "sequences"
         /\ req' = r.req
         /\ resp' = r.resp
         /\ calls' = r.calls
         /\ tap' = TapAfter(tap, r.calls)
         /\ ret' = RetUnit
    /\ UNCHANGED <<scan_chain, device_count, index, overflow_checks, status, args, obs>>

NextSeq == Sequences

SpecSeq == InitSeq /\ [][NextSeq]_vars

----------------------------------------------------------------------------
(* Properties *)

ComposedOps == {"shift_ir", "shift_dr", "transfer", "write_abort"}

IsTms(c) == c.kind = "tms_sequence"
IsSeq(c) == c.kind = "sequence"

\* The tms_sequence patterns of an operation, in order.
TmsPatterns(cs) == [i \in 1..Len(SelectSeq(cs, IsTms)) |-> SelectSeq(cs, IsTms)[i].bits]

\* The clocks of the `sequence` bursts of an operation.
RECURSIVE SeqClocks(_)
SeqClocks(cs) ==
    IF cs = <<>> THEN 0
    ELSE (IF IsSeq(Head(cs)) THEN Head(cs).n_bits * Head(cs).rep ELSE 0)
         + SeqClocks(Tail(cs))

AllOnes32 == 0..(WordBits - 1)

\* C1: a composed operation (shift_ir, shift_dr, transfer with either
\* outcome, write_abort) started in Run-Test/Idle with index < device_count
\* and an IR length of at least 1 returns, and leaves the TAP controller in
\* Run-Test/Idle.
C1_ReturnsToIdle ==
    [][ ( /\ op' \in ComposedOps
          /\ tap = Idle
          /\ index < device_count
          /\ ~current_tap.panic
          /\ current_tap.tap.ir_length >= 1 )
        => (tap' = Idle /\ status' = "running" /\ ret'.tag # "panic") ]_vars

C1_Witness ==
    /\ op = "transfer"
    /\ ret.tag = "Wait"
    /\ 0 < index
    /\ index < device_count
    /\ current_tap.tap.ir_length >= 1
    /\ tap = Idle

\* C2 (as claimed): index < device_count in every reachable state.
C2_IndexBelowCount == index < device_count

C5_AcceptsFullChain ==
    (op = "update_device_count" /\ args[1] <= Len(scan_chain)) => ret.tag = "true"

\* C6: select_index(i) returns false and leaves index and device_count as
\* they were when i >= device_count; otherwise it returns true and index is
\* i afterwards; a second call with the same i returns true and changes
\* nothing.
C6_SelectIndex ==
    [][ op' = "select_index" =>
          /\ IF args'[1] >= device_count
             THEN ret'.tag = "false" /\ UNCHANGED <<index, device_count, scan_chain>>
             ELSE ret'.tag = "true" /\ index' = args'[1]
                  /\ UNCHANGED <<device_count, scan_chain>>
          /\ (op = "select_index" /\ ret.tag = "true" /\ args' = args)
               => (ret'.tag = "true" /\ UNCHANGED <<index, device_count, scan_chain>>) ]_vars

C6_Witness ==
    /\ op = "select_index"
    /\ ret.tag = "true"
    /\ index = args[1]
    /\ index > 0

\* C7 (as claimed): current_tap() never fails, index is always a valid
\* position of scan_chain.
C7_CurrentTapNeverFails ==
    /\ index < Len(scan_chain)
    /\ ~(op = "current_tap" /\ ret.tag = "panic")

\* C8: a transfer (check_ack = true) that returns gives Ok(the captured data
\* word) exactly when the ack it read back is 0b010 and Wait otherwise; on
\* Wait the only bursts are the bypass-before bits, the 3 request bits and
\* the idle cycles, none of them with TMS = 1, and the shift state is left
\* with SHIFT_TO_IDLE.
C8_TransferAck ==
    (op = "transfer" /\ ret.tag # "panic") =>
        /\ ret.tag \in {"Ok", "Wait"}
        /\ ret.tag = "Ok" <=> obs.ack = {1}
        /\ ret.tag = "Ok" =>
             ret.val = (IF obs.hw_data.mode = "loopback" THEN args[4] ELSE AllOnes32)
        /\ ret.tag = "Wait" =>
             /\ SeqClocks(calls) = index + 3 + args[3]
             /\ \A i \in DOMAIN calls : IsSeq(calls[i]) => ~calls[i].tms
             /\ TmsPatterns(calls) = << <<TRUE, FALSE, FALSE>>, <<TRUE, TRUE, FALSE>> >>

C8_Witness ==
    /\ op = "transfer"
    /\ ret.tag = "Wait"
    /\ obs.ack = Bits(1)
    /\ index < device_count
    /\ args[3] > 0

\* C9: a write_abort(data) that returns has, whatever ack the hardware gave,
\* shifted the request bits 0b000, then the 32 data bits, left the shift
\* state through Exit1 (never SHIFT_TO_IDLE), and ended with 8 idle clocks.
C9_WriteAbort ==
    (op = "write_abort" /\ ret.tag # "panic") =>
        LET seqs == SelectSeq(calls, IsSeq)
            \* the bypass-before bursts come first
            first == IF index = 0 THEN 1
                     ELSE Len(shift_repeated_tdi(Bits(255), index, FALSE)) + 1
        IN /\ Len(seqs) >= first + 7
           \* the request: 2 bits then 1 bit of 0b000, TMS = 0
           /\ seqs[first] = SeqCall(2, TRUE, FALSE, << {} >>, 1)
           /\ seqs[first + 1] = SeqCall(1, TRUE, FALSE, << {} >>, 1)
           \* the data: 8 + 8 + 8 + 7 + 1 bits of data, least significant first
           /\ \A j \in 0..4 :
                /\ seqs[first + 2 + j].n_bits = (IF j < 3 THEN 8 ELSE IF j = 3 THEN 7 ELSE 1)
                /\ seqs[first + 2 + j].tdi = << AsU8(Shr(args[1], IF j < 4 THEN 8 * j ELSE 31)) >>
                /\ seqs[first + 2 + j].rep = 1
           /\ TmsPatterns(calls) = << <<TRUE, FALSE, FALSE>>, <<TRUE, FALSE>> >>
           /\ calls[Len(calls)] = SeqCall(8, TRUE, FALSE, << Bits(255) >>, 1)
           /\ calls[Len(calls) - 1] = TmsCall(<<TRUE, FALSE>>)
           /\ SeqClocks(calls) = index + 3 + 32 + BypassAfter + 8

C9_Witness ==
    /\ op = "write_abort"
    /\ ret.tag = "unit"
    /\ obs.ack # Bits(2)
    /\ 0 < index
    /\ index + 1 < device_count

\* C10: with a loopback hardware (each capture byte holds exactly the bits
\* clocked, the higher bits zero) shift_register_data(data, clock_cycles,
\* exit_shift) returns data masked to its low clock_cycles bits, for
\* clock_cycles in 1..32 and both values of exit_shift.
C10_RoundTrip ==
    (op = "shift_register_data" /\ obs.hw_data.mode = "loopback"
        /\ args[2] >= 1 /\ args[2] <= WordBits) =>
        /\ ret.tag = "word"
        /\ ret.val = { b \in args[1] : b < args[2] }

C10_Witness ==
    /\ op = "shift_register_data"
    /\ obs.hw_data.mode = "loopback"
    /\ args[2] = 17
    /\ args[3]
    /\ ret.tag = "word"
    /\ ret.val = { b \in Word(57005, 48879) : b < 17 }

\* C11: with a loopback hardware and index < device_count, shift_dr(dr)
\* returns dr (0xDEADBEEF with device_count = 1, index = 0): the bypass
\* filler bits do not enter the returned word.
C11_ShiftDrLoopback ==
    (op = "shift_dr" /\ obs.hw_data.mode = "loopback" /\ index < device_count) =>
        /\ ret.tag = "word"
        /\ ret.val = args[1]

C11_Witness ==
    /\ op = "shift_dr"
    /\ obs.hw_data.mode = "loopback"
    /\ device_count = 3
    /\ index = 1
    /\ args[1] = Word(57005, 48879)
    /\ ret.val = Word(57005, 48879)

\* The clocks of the `sequence` bursts of an operation, one element per
\* clock: the TDI bit and the TMS level.
BurstClocks(c) ==
    [j \in 1..(c.n_bits * c.rep) |->
        [tdi |-> IF ((j - 1) % c.n_bits) \in c.tdi[1] THEN 1 ELSE 0, tms |-> c.tms]]

RECURSIVE Clocks(_)
Clocks(cs) ==
    IF cs = <<>> THEN <<>>
    ELSE (IF IsSeq(Head(cs)) THEN BurstClocks(Head(cs)) ELSE <<>>) \o Clocks(Tail(cs))

Bit(x, b) == IF b \in x THEN 1 ELSE 0

\* The clocks of a shift: `before` filler bits, the low `len` bits of `data`
\* least significant first, `after` filler bits; TMS is 1 on the last clock.
ExpectedShift(before, data, len, after) ==
    [i \in 1..(before + len + after) |->
        [tdi |-> IF i <= before \/ i > before + len THEN 1 ELSE Bit(data, i - before - 1),
         tms |-> (i = before + len + after)]]

\* C12 (as claimed): with device_count = 3, index = 1 and the selected TAP's
\* ir_length = 4, ir_before = 0, ir_after = 0, shift_ir(0xA) clocks 1 bypass
\* bit, the 4 bits of 0xA and 1 bypass bit: device_count - 1 + ir_length
\* clocks.
C12_BypassPerTap ==
    (op = "shift_ir" /\ ret.tag = "unit" /\ device_count = 3 /\ index = 1
        /\ current_tap.tap = TapConfig(4, 0, 0) /\ args[1] = Bits(10)) =>
        /\ Len(Clocks(calls)) = device_count - 1 + 4
        /\ Clocks(calls) = ExpectedShift(1, Bits(10), 4, 1)

\* C12 (amended): a shift_ir(ir) that returns clocks, between
\* IDLE_TO_SHIFT_IR and EXIT1_TO_IDLE, the selected TAP's ir_before filler
\* bits, the ir_length bits of ir, then its ir_after filler bits, whatever
\* device_count and index are; in the scenario above that is the 4 bits of
\* 0xA and no bypass bit.
C12_BypassFromTapConfig ==
    (op = "shift_ir" /\ ret.tag = "unit" /\ current_tap.tap.ir_length >= 1) =>
        LET t == current_tap.tap IN
          /\ Clocks(calls) = ExpectedShift(t.ir_before, args[1], t.ir_length, t.ir_after)
          /\ TmsPatterns(calls) = << <<TRUE, TRUE, FALSE, FALSE>>, <<TRUE, FALSE>> >>
          /\ calls[1] = TmsCall(<<TRUE, TRUE, FALSE, FALSE>>)
          /\ calls[Len(calls)] = TmsCall(<<TRUE, FALSE>>)

C12_Witness ==
    /\ op = "shift_ir"
    /\ ret.tag = "unit"
    /\ device_count = 3
    /\ index = 1
    /\ current_tap.tap = TapConfig(4, 0, 0)
    /\ args[1] = Bits(10)
    /\ Len(Clocks(calls)) = 4

\* The TAP states entered while the calls cs are clocked, in order, starting
\* from state s; a burst that keeps the TAP where it is enters nothing.
RECURSIVE TapPathBits(_, _)
TapPathBits(s, bits) ==
    IF bits = <<>> THEN <<>>
    ELSE << TapStep(s, Head(bits)) >> \o TapPathBits(TapStep(s, Head(bits)), Tail(bits))

RECURSIVE TapPathClocks(_, _, _)
TapPathClocks(s, tms, n) ==
    IF n = 0 \/ TapStep(s, tms) = s THEN <<>>
    ELSE << TapStep(s, tms) >> \o TapPathClocks(TapStep(s, tms), tms, n - 1)

RECURSIVE TapPath(_, _)
TapPath(s, cs) ==
    IF cs = <<>> THEN <<>>
    ELSE (IF IsTms(Head(cs)) THEN TapPathBits(s, Head(cs).bits)
          ELSE TapPathClocks(s, Head(cs).tms, Head(cs).n_bits * Head(cs).rep))
         \o TapPath(TapAfterCall(s, Head(cs)), Tail(cs))

Range(f) == { f[i] : i \in DOMAIN f }

\* C15 (as claimed): when transfer returns Wait the TAP controller never
\* enters Exit1-DR.
C15_WaitSkipsExit1 ==
    (op = "transfer" /\ ret.tag = "Wait") =>
        "Exit1-DR" \notin Range(TapPath(Idle, calls))

\* C15 (amended): when transfer returns Wait the TAP leaves Shift-DR on the
\* first clock of the SHIFT_TO_IDLE tms_sequence, not on a shifted bit, and
\* goes Shift-DR, Exit1-DR, Update-DR, Run-Test/Idle; it never enters
\* Pause-DR or Exit2-DR and EXIT1_TO_IDLE is not used.
C15_WaitLeavesThroughExit1 ==
    (op = "transfer" /\ ret.tag = "Wait") =>
        /\ TapPath(Idle, calls) =
             << "Select-DR-Scan", "Capture-DR", "Shift-DR", "Exit1-DR", "Update-DR", Idle >>
        /\ tap = Idle
        /\ \A i \in DOMAIN calls : IsSeq(calls[i]) => ~calls[i].tms
        /\ \A i \in DOMAIN calls : IsTms(calls[i]) => calls[i].bits # <<TRUE, FALSE>>

C15_Witness ==
    /\ op = "transfer"
    /\ ret.tag = "Wait"
    /\ "Exit1-DR" \in Range(TapPath(Idle, calls))
    /\ 0 < index
    /\ index < device_count

\* C16: for index < device_count, shift_dr clocks between IDLE_TO_SHIFT_DR
\* and EXIT1_TO_IDLE exactly index filler bits (TDI = 1), the 32 bits of dr
\* least significant first, then device_count - index - 1 filler bits:
\* device_count + 31 clocks, with TMS = 1 on the last one only.
C16_ShiftDrWire ==
    (op = "shift_dr" /\ index < device_count /\ ret.tag = "word") =>
        LET cl == Clocks(calls) IN
          /\ cl = ExpectedShift(index, args[1], 32, device_count - index - 1)
          /\ Len(cl) = device_count + 31
          /\ { i \in DOMAIN cl : cl[i].tms } = { Len(cl) }
          /\ calls[1] = TmsCall(<<TRUE, FALSE, FALSE>>)
          /\ calls[Len(calls)] = TmsCall(<<TRUE, FALSE>>)
          /\ \A i \in 2..(Len(calls) - 1) : IsSeq(calls[i])

C16_Witness ==
    /\ op = "shift_dr"
    /\ ret.tag = "word"
    /\ device_count = 3
    /\ index \in {1, 2}
    /\ Len(Clocks(calls)) = 34

\* The position of the last tms_sequence call of an operation.
LastTms(cs) ==
    CHOOSE i \in DOMAIN cs : IsTms(cs[i]) /\ \A j \in DOMAIN cs : IsTms(cs[j]) => j <= i

\* C17: a transfer that returns Ok or Wait ends with exactly idle_cycles
\* clocks with TDI = 1 and TMS = 0, sent after the tms_sequence that brought
\* the TAP back to Run-Test/Idle; with idle_cycles = 0 that tms_sequence is
\* the last call.
C17_IdleCycles ==
    (op = "transfer" /\ ret.tag \in {"Ok", "Wait"}) =>
        LET last == LastTms(calls) IN
          /\ TapAfter(Idle, SubSeq(calls, 1, last)) = Idle
          /\ Clocks(SubSeq(calls, last + 1, Len(calls))) =
               [j \in 1..args[3] |-> [tdi |-> 1, tms |-> FALSE]]
          /\ args[3] = 0 => last = Len(calls)
          /\ calls[last].bits =
               (IF ret.tag = "Ok" THEN <<TRUE, FALSE>> ELSE <<TRUE, TRUE, FALSE>>)

C17_Witness ==
    /\ op = "transfer"
    /\ ret.tag = "Wait"
    /\ args[3] = 3
    /\ calls[Len(calls)] = SeqCall(3, TRUE, FALSE, << Bits(255) >>, 1)

\* C18: every `sequence` call made by shift_ir, shift_dr, transfer and
\* write_abort is a burst of 1 to 8 bits with capture set and one TDI byte,
\* when the selected TAP has ir_length >= 1.
C18_Bursts ==
    (/\ op \in ComposedOps
     /\ op = "shift_ir" => (~current_tap.panic /\ current_tap.tap.ir_length >= 1)) =>
        \A i \in DOMAIN calls :
            IsSeq(calls[i]) =>
                /\ calls[i].n_bits \in 1..8
                /\ calls[i].capture
                /\ Len(calls[i].tdi) = 1

C18_Witness ==
    /\ op = "shift_ir"
    /\ ret.tag = "unit"
    /\ current_tap.tap = TapConfig(9, 0, 12)
    /\ \E i \in DOMAIN calls : calls[i] = SeqCall(3, TRUE, FALSE, << Bits(255) >>, 1)
    /\ \E i \in DOMAIN calls : calls[i].n_bits = 1 /\ ~calls[i].tms

\* C19: transfer returns Ok or Wait, never Fault or Mismatch: with check_ack
\* an ack other than 0b010 gives Wait, status 0x2; without check_ack every
\* ack gives Ok.
C19_NeverFault ==
    /\ (op = "transfer" /\ ret.tag # "panic") =>
          /\ ret.tag \in {"Ok", "Wait"}
          /\ obs.ack # Bits(2) =>
                /\ ret.tag = "Wait"
                /\ TransferResult_status(ret.tag) = 2
          /\ TransferResult_status(ret.tag) \notin {8, 16}
    /\ (op = "write_abort" /\ ret.tag # "panic") =>
          transfer(RnW_W, 0, 8, args[1], FALSE, obs.hw_ack, obs.hw_data).ret.tag = "Ok"

C19_Witness ==
    /\ op = "transfer"
    /\ ret.tag = "Wait"
    /\ obs.ack = Bits(4)

\* C20: the word returned by shift_register_data(data, clock_cycles, ..),
\* clock_cycles in 1..32, has no bit set at a position >= clock_cycles, and
\* is the same whether the hardware leaves the unclocked bits of its capture
\* bytes at 0 or sets them.
C20_OnlyClockedBits ==
    (op = "shift_register_data" /\ ret.tag = "word"
        /\ args[2] >= 1 /\ args[2] <= WordBits) =>
        /\ ret.val \subseteq 0..(args[2] - 1)
        /\ obs.hw_data.mode = "loopback_dirty" =>
             ret.val = shift_register_data(args[1], args[2], args[3], Hw("loopback")).captured

\* The request bytes of the first n sequences of a request, and the bytes
\* those of them with capture set put into the response.
RECURSIVE RequestBytes(_, _)
RequestBytes(infos, n) ==
    IF n = 0 THEN 0
    ELSE RequestBytes(infos, n - 1) + 1 + CeilDiv8(infos[n].n_bits)

RECURSIVE ResponseBytes(_, _)
ResponseBytes(infos, n) ==
    IF n = 0 THEN 0
    ELSE ResponseBytes(infos, n - 1)
         + (IF infos[n].capture THEN CeilDiv8(infos[n].n_bits) ELSE 0)

\* C13: for a request [count] { [descriptor] [ceil(n_bits/8) TDI bytes] } x
\* count, sequences calls `sequence` once per descriptor, in request order,
\* with that descriptor's n_bits, capture, tms and TDI bytes; the request
\* cursor ends after the count byte and 1 + ceil(n_bits/8) bytes per
\* descriptor, the response cursor has moved by ceil(n_bits/8) for each
\* descriptor with capture set and by nothing for the others.
C13_Sequences ==
    (op = "sequences") =>
        LET infos == args[1]
            request == args[2]
            consumed == 1 + RequestBytes(infos, Len(infos))
        IN /\ Len(calls) = Len(infos)
           /\ \A i \in DOMAIN infos :
                LET at == 1 + RequestBytes(infos, i - 1) + 1 IN
                  calls[i] = SeqCall(infos[i].n_bits, infos[i].capture, infos[i].tms,
                                     [k \in 1..CeilDiv8(infos[i].n_bits) |->
                                         Bits(request[at + k])], 1)
           /\ req = SubSeq(request, consumed + 1, Len(request))
           /\ Len(request) - Len(req) = consumed
           /\ resp - args[3] = ResponseBytes(infos, Len(infos))

C13_Witness ==
    /\ op = "sequences"
    /\ args[1] = << [n_bits |-> 8, capture |-> TRUE, tms |-> FALSE],
                    [n_bits |-> 4, capture |-> FALSE, tms |-> FALSE] >>
    /\ args[2] = << 2, 136, DataByte(3), 4, DataByte(5) >>
    /\ args[3] = 0
    /\ resp = 1
    /\ req = <<>>
    /\ Len(calls) = 2

\* C14: for every byte b, SequenceInfo::from(b) has n_bits = 64 if
\* b & 0x3F = 0 and n_bits = b & 0x3F otherwise, so n_bits is in 1..64;
\* capture is bit 7 of b and tms is bit 6 of b.
C14_SequenceInfo ==
    (op = "SequenceInfo::from") =>
        LET b == args[1] IN
          /\ ret.val.n_bits = 64 <=> b % 64 = 0
          /\ b % 64 # 0 => ret.val.n_bits = b % 64
          /\ ret.val.n_bits \in 1..64
          /\ ret.val.capture <=> (b \div 128) % 2 = 1
          /\ ret.val.tms <=> (b \div 64) % 2 = 1

C14_Witness ==
    /\ op = "SequenceInfo::from"
    /\ args[1] = 192
    /\ ret.val = [n_bits |-> 64, capture |-> TRUE, tms |-> TRUE]

====
